---- MODULE Spec2Model ----
(***************************************************************************)
(* Routing Table Change Tracker (src/tracker.py).                          *)
(*                                                                         *)
(* A text is a sequence of one-character strings.  The module models       *)
(*   - the pure text functions used by compare_and_log_changes             *)
(*     (str.splitlines, str.strip, sorted, difflib.unified_diff),          *)
(*   - the snapshot file and load_previous_snapshot / save_snapshot,       *)
(*   - run_once, run_periodically and the dispatch in main.                *)
(***************************************************************************)
EXTENDS Integers, Sequences, FiniteSets, TLC

\* ------------------------------------------------------------------ bounds
\* Longest text handed to compare_and_log_changes in SpecCompare.
MaxLen == 3
\* Longest text the snapshot source returns in Spec.
MaxAcqLen == 2
\* Number of cycles run_periodically is followed through.
MaxCycles == 2

\* ------------------------------------------------------------- characters
LF == "\n"
CR == "\r"
SP == " "

\* Characters of the texts compared in SpecCompare.
Chars == {"a", "b", SP, LF}
\* Characters of the texts the snapshot source returns in Spec.
AcqChars == {"a", LF, CR}

\* Code point of a character (Python compares str by code point).
Ord(c) ==
    CASE c = LF -> 10
      [] c = CR -> 13
      [] c = SP -> 32
      [] c = "a" -> 97
      [] c = "b" -> 98

\* Line boundaries of str.splitlines that occur in the modelled alphabet.
LineBreaks == {LF, CR}
\* Characters str.strip() removes that occur in the modelled alphabet.
Whitespace == {SP, LF, CR}

\* All texts over alphabet cs of length at most n.
TextsOver(cs, n) == UNION {[1..k -> cs] : k \in 0..n}

Texts == TextsOver(Chars, MaxLen)
AcqTexts == TextsOver(AcqChars, MaxAcqLen)

\* --------------------------------------------------------- str operations
\* Position of the first line break in s, 0 when there is none.
FirstBreak(s) ==
    IF \E i \in 1..Len(s) : s[i] \in LineBreaks
    THEN CHOOSE i \in 1..Len(s) :
            /\ s[i] \in LineBreaks
            /\ \A j \in 1..(i-1) : s[j] \notin LineBreaks
    ELSE 0

\* str.splitlines(keepends): the lines of s; "\r\n" is one boundary, and a
\* final boundary opens no further (empty) line.
RECURSIVE splitlines(_, _)
splitlines(s, keepends) ==
    IF s = << >> THEN << >>
    ELSE LET k == FirstBreak(s) IN
         IF k = 0 THEN << s >>
         ELSE LET eol == IF s[k] = CR /\ k < Len(s) /\ s[k+1] = LF
                         THEN k + 1 ELSE k
                  line == SubSeq(s, 1, IF keepends THEN eol ELSE k - 1)
              IN  << line >> \o splitlines(SubSeq(s, eol + 1, Len(s)), keepends)

\* str.rstrip(): s without its trailing whitespace.
RECURSIVE rstrip(_)
rstrip(s) ==
    IF s # << >> /\ s[Len(s)] \in Whitespace
    THEN rstrip(SubSeq(s, 1, Len(s) - 1))
    ELSE s

\* str.lstrip(): s without its leading whitespace.
RECURSIVE lstrip(_)
lstrip(s) ==
    IF s # << >> /\ s[1] \in Whitespace
    THEN lstrip(Tail(s))
    ELSE s

\* str.strip()
strip(s) == rstrip(lstrip(s))

\* set(seq): the elements of a list.
ToSet(seq) == {seq[i] : i \in 1..Len(seq)}

\* Python's str "<": lexicographic by code point, a proper prefix is smaller.
RECURSIVE StrLess(_, _)
StrLess(s, t) ==
    IF t = << >> THEN FALSE
    ELSE IF s = << >> THEN TRUE
    ELSE IF s[1] = t[1] THEN StrLess(Tail(s), Tail(t))
    ELSE Ord(s[1]) < Ord(t[1])

\* Mutant of sorted: the elements in descending order.
RECURSIVE sortedMut(_)
sortedMut(S) ==
    IF S = {} THEN << >>
    ELSE LET m == CHOOSE x \in S : \A y \in S \ {x} : StrLess(y, x)
         IN  << m >> \o sortedMut(S \ {m})

\* sorted(S) for a set of str: ascending list of its elements.
RECURSIVE sorted(_)
sorted(S) ==
    IF S = {} THEN << >>
    ELSE LET m == CHOOSE x \in S : \A y \in S \ {x} : StrLess(x, y)
         IN  << m >> \o sorted(S \ {m})

\* ------------------------------------------------ difflib.SequenceMatcher
\* Sequences are indexed as in Python: element i of a is a[i+1], windows are
\* half-open [lo, hi).  No junk function is given and the automatic junk
\* heuristic needs 200 or more lines, so every line is matchable.

\* Length of the common run of a and b starting at a[i], b[j] inside the window.
RECURSIVE RunLen(_, _, _, _, _, _)
RunLen(a, b, i, j, ahi, bhi) ==
    IF i < ahi /\ j < bhi /\ a[i+1] = b[j+1]
    THEN 1 + RunLen(a, b, i + 1, j + 1, ahi, bhi)
    ELSE 0

\* SequenceMatcher.find_longest_match: <<i, j, k>>, the longest matching block
\* of the window; of the longest, the one that starts earliest in a and, of
\* those, earliest in b; <<alo, blo, 0>> when nothing matches.
find_longest_match(a, b, alo, ahi, blo, bhi) ==
    LET cands == (alo..(ahi-1)) \X (blo..(bhi-1))
        size(c) == RunLen(a, b, c[1], c[2], ahi, bhi)
        longest == {c \in cands : size(c) > 0 /\ \A d \in cands : size(d) <= size(c)}
    IN  IF longest = {} THEN << alo, blo, 0 >>
        ELSE LET c == CHOOSE c \in longest :
                        \A d \in longest : c[1] < d[1] \/ (c[1] = d[1] /\ c[2] <= d[2])
             IN  << c[1], c[2], size(c) >>

\* The recursion of get_matching_blocks: the longest match, then the pieces to
\* its left and to its right, in increasing order.
RECURSIVE MatchingIn(_, _, _, _, _, _)
MatchingIn(a, b, alo, ahi, blo, bhi) ==
    LET x == find_longest_match(a, b, alo, ahi, blo, bhi)
        i == x[1]
        j == x[2]
        k == x[3]
    IN  IF k = 0 THEN << >>
        ELSE (IF alo < i /\ blo < j THEN MatchingIn(a, b, alo, i, blo, j) ELSE << >>)
             \o << x >>
             \o (IF i + k < ahi /\ j + k < bhi
                 THEN MatchingIn(a, b, i + k, ahi, j + k, bhi) ELSE << >>)

\* The collapse of adjacent blocks in get_matching_blocks; cur is (i1, j1, k1).
RECURSIVE CollapseAdjacent(_, _)
CollapseAdjacent(blocks, cur) ==
    IF blocks = << >>
    THEN IF cur[3] # 0 THEN << cur >> ELSE << >>
    ELSE LET nxt == Head(blocks) IN
         IF cur[1] + cur[3] = nxt[1] /\ cur[2] + cur[3] = nxt[2]
         THEN CollapseAdjacent(Tail(blocks), << cur[1], cur[2], cur[3] + nxt[3] >>)
         ELSE (IF cur[3] # 0 THEN << cur >> ELSE << >>)
              \o CollapseAdjacent(Tail(blocks), nxt)

\* SequenceMatcher.get_matching_blocks, ending with the sentinel (la, lb, 0).
get_matching_blocks(a, b) ==
    CollapseAdjacent(MatchingIn(a, b, 0, Len(a), 0, Len(b)), << 0, 0, 0 >>)
        \o << << Len(a), Len(b), 0 >> >>

\* The loop of get_opcodes over the matching blocks, from position (i, j).
RECURSIVE OpcodesFrom(_, _, _)
OpcodesFrom(blocks, i, j) ==
    IF blocks = << >> THEN << >>
    ELSE LET ai == Head(blocks)[1]
             bj == Head(blocks)[2]
             size == Head(blocks)[3]
             tag == IF i < ai /\ j < bj THEN "replace"
                    ELSE IF i < ai THEN "delete"
                    ELSE IF j < bj THEN "insert"
                    ELSE ""
         IN  (IF tag # "" THEN << << tag, i, ai, j, bj >> >> ELSE << >>)
             \o (IF size # 0
                 THEN << << "equal", ai, ai + size, bj, bj + size >> >> ELSE << >>)
             \o OpcodesFrom(Tail(blocks), ai + size, bj + size)

\* SequenceMatcher.get_opcodes: <<tag, i1, i2, j1, j2>> turning a into b.
get_opcodes(a, b) == OpcodesFrom(get_matching_blocks(a, b), 0, 0)

Max(x, y) == IF x >= y THEN x ELSE y
Min(x, y) == IF x <= y THEN x ELSE y

\* The loop of get_grouped_opcodes: group is the hunk being built.
RECURSIVE GroupLoop(_, _, _)
GroupLoop(codes, group, n) ==
    IF codes = << >>
    THEN IF group # << >> /\ ~(Len(group) = 1 /\ group[1][1] = "equal")
         THEN << group >> ELSE << >>
    ELSE LET c == Head(codes)
             tag == c[1]
             i1 == c[2]
             i2 == c[3]
             j1 == c[4]
             j2 == c[5]
         IN  IF tag = "equal" /\ i2 - i1 > n + n
             THEN << Append(group, << tag, i1, Min(i2, i1 + n), j1, Min(j2, j1 + n) >>) >>
                  \o GroupLoop(Tail(codes),
                               << << tag, Max(i1, i2 - n), i2, Max(j1, j2 - n), j2 >> >>, n)
             ELSE GroupLoop(Tail(codes), Append(group, c), n)

\* get_grouped_opcodes: "if not codes: codes = [("equal", 0, 1, 0, 1)]".
CodesOrEqual(codes) ==
    IF codes = << >> THEN << << "equal", 0, 1, 0, 1 >> >> ELSE codes

\* get_grouped_opcodes: a leading "equal" keeps its last n lines.
TrimFirst(codes, n) ==
    IF codes[1][1] = "equal"
    THEN << << "equal", Max(codes[1][2], codes[1][3] - n), codes[1][3],
               Max(codes[1][4], codes[1][5] - n), codes[1][5] >> >> \o Tail(codes)
    ELSE codes

\* get_grouped_opcodes: a trailing "equal" keeps its first n lines.
TrimLast(codes, n) ==
    IF codes[Len(codes)][1] = "equal"
    THEN SubSeq(codes, 1, Len(codes) - 1)
         \o << << "equal", codes[Len(codes)][2],
                  Min(codes[Len(codes)][3], codes[Len(codes)][2] + n),
                  codes[Len(codes)][4],
                  Min(codes[Len(codes)][5], codes[Len(codes)][4] + n) >> >>
    ELSE codes

\* SequenceMatcher.get_grouped_opcodes(n): hunks with up to n lines of context.
get_grouped_opcodes(a, b, n) ==
    GroupLoop(TrimLast(TrimFirst(CodesOrEqual(get_opcodes(a, b)), n), n), << >>, n)

\* --------------------------------------------------- difflib.unified_diff
\* Default number of context lines of unified_diff.
ContextLines == 3

\* _format_range_unified(start, stop)
FormatRange(start, stop) ==
    LET length == stop - start IN
    IF length = 1 THEN << ToString(start + 1) >>
    ELSE << ToString(IF length = 0 THEN start ELSE start + 1), ",", ToString(length) >>

\* The lines of seq, each with the one-character prefix in front.
Prefixed(prefix, seq) == [i \in 1..Len(seq) |-> << prefix >> \o seq[i]]

\* The lines one opcode contributes to a hunk.
OpcodeLines(a, b, c) ==
    IF c[1] = "equal" THEN Prefixed(" ", SubSeq(a, c[2] + 1, c[3]))
    ELSE (IF c[1] \in {"replace", "delete"}
          THEN Prefixed("-", SubSeq(a, c[2] + 1, c[3])) ELSE << >>)
         \o (IF c[1] \in {"replace", "insert"}
             THEN Prefixed("+", SubSeq(b, c[4] + 1, c[5])) ELSE << >>)

RECURSIVE GroupLines(_, _, _)
GroupLines(a, b, group) ==
    IF group = << >> THEN << >>
    ELSE OpcodeLines(a, b, Head(group)) \o GroupLines(a, b, Tail(group))

\* One hunk: the "@@ -range +range @@" line and the lines of its opcodes.
HunkLines(a, b, group) ==
    LET first == group[1]
        last == group[Len(group)]
    IN  << << "@@ -" >> \o FormatRange(first[2], last[3]) \o << " +" >>
              \o FormatRange(first[4], last[5]) \o << " @@" >> >>
        \o GroupLines(a, b, group)

RECURSIVE AllHunks(_, _, _)
AllHunks(a, b, groups) ==
    IF groups = << >> THEN << >>
    ELSE HunkLines(a, b, Head(groups)) \o AllHunks(a, b, Tail(groups))

\* The "---" and "+++" lines go before the first hunk; no hunk, no line.
WithFileLines(hunks) ==
    IF hunks = << >> THEN << >>
    ELSE << << "--- Previous Routes" >>, << "+++ Current Routes" >> >> \o hunks

\* list(difflib.unified_diff(a, b, fromfile='Previous Routes',
\* tofile='Current Routes', lineterm='')): the two file lines once, before the
\* first hunk, then the hunks; nothing when there is no hunk.
unified_diff(a, b) ==
    WithFileLines(AllHunks(a, b, get_grouped_opcodes(a, b, ContextLines)))

\* ---------------------------------------------------------------- logging
\* One logging.info / warning / error call: the message and its variable part.
Info(msg, arg) == [msg |-> msg, arg |-> arg]

\* The calls of a loop "for x in seq: logging.info(msg + x)".
InfoEach(msg, seq) == [i \in 1..Len(seq) |-> Info(msg, seq[i])]

\* "if route.strip():" - the line has a character that is not whitespace.
NonBlank(route) == strip(route) # << >>

\* A loop that logs every route of the list, without the "if route.strip():".
NonBlankOnlyMut(seq) == seq

\* The routes of the list a "for route in ...: if route.strip():" loop logs.
RECURSIVE NonBlankOnly(_)
NonBlankOnly(seq) ==
    IF seq = << >> THEN << >>
    ELSE (IF NonBlank(Head(seq)) THEN << Head(seq) >> ELSE << >>)
         \o NonBlankOnly(Tail(seq))

\* A text or None (Optional[str]).
None == [some |-> FALSE, text |-> << >>]
Some(t) == [some |-> TRUE, text |-> t]

\* ------------------------------------------------ compare_and_log_changes
\* The logging calls after "Route change detected!" for the list diff_output
\* and the sets added and removed.
ChangeLog(diff_output, added, removed) ==
    << Info("Route change detected!", << >>), Info("-" , << >>) >>
    \o (IF diff_output # << >>
        THEN << Info("Routing table diff:", << >>) >>
             \o [i \in 1..Len(diff_output) |-> Info("", rstrip(diff_output[i]))]
        ELSE << >>)
    \o << Info("-", << >>) >>
    \o (IF added # {}
        THEN << Info("Added routes:", << >>) >>
             \o InfoEach("  + ", NonBlankOnly(sorted(added)))
        ELSE << >>)
    \o (IF removed # {}
        THEN << Info("Removed routes:", << >>) >>
             \o InfoEach("  - ", NonBlankOnly(sorted(removed)))
        ELSE << >>)
    \o << Info("=", << >>) >>

\* The report of a call that found a change.
ChangeReport(diff_output, added, removed) ==
    [unchanged |-> FALSE,
     diff_output |-> diff_output,
     added |-> added,
     removed |-> removed,
     log |-> ChangeLog(diff_output, added, removed)]

\* added = current_set - previous_set
AddedSet(previous_set, current_set) == current_set \ previous_set

\* Mutant of RemovedSet: every line that is in one set only.
RemovedSetMut(previous_set, current_set) ==
    (previous_set \ current_set) \cup (current_set \ previous_set)

\* removed = previous_set - current_set
RemovedSet(previous_set, current_set) == previous_set \ current_set

\* Mutant of compare_and_log_changes: the early return compares the sets of
\* lines instead of the texts.
compare_and_log_changesMutSets(previous, current) ==
    IF ToSet(splitlines(previous, FALSE)) = ToSet(splitlines(current, FALSE))
    THEN [unchanged |-> TRUE, diff_output |-> << >>, added |-> {}, removed |-> {},
          log |-> << Info("No routing table changes detected", << >>) >>]
    ELSE ChangeReport(
            unified_diff(splitlines(previous, TRUE), splitlines(current, TRUE)),
            AddedSet(ToSet(splitlines(previous, FALSE)), ToSet(splitlines(current, FALSE))),
            RemovedSet(ToSet(splitlines(previous, FALSE)), ToSet(splitlines(current, FALSE))))

\* Mutant of compare_and_log_changes: the sets are built from the lines that
\* keep their line endings.
compare_and_log_changesMutEnds(previous, current) ==
    IF previous = current
    THEN [unchanged |-> TRUE, diff_output |-> << >>, added |-> {}, removed |-> {},
          log |-> << Info("No routing table changes detected", << >>) >>]
    ELSE ChangeReport(
            unified_diff(splitlines(previous, TRUE), splitlines(current, TRUE)),
            AddedSet(ToSet(splitlines(previous, TRUE)), ToSet(splitlines(current, TRUE))),
            RemovedSet(ToSet(splitlines(previous, TRUE)), ToSet(splitlines(current, TRUE))))

\* The report of one call: whether the early return was taken, the list
\* diff_output, the sets added and removed, and the logging calls in order.
compare_and_log_changes(previous, current) ==
    IF previous = current
    THEN [unchanged |-> TRUE, diff_output |-> << >>, added |-> {}, removed |-> {},
          log |-> << Info("No routing table changes detected", << >>) >>]
    ELSE ChangeReport(
            unified_diff(splitlines(previous, TRUE), splitlines(current, TRUE)),
            AddedSet(ToSet(splitlines(previous, FALSE)), ToSet(splitlines(current, FALSE))),
            RemovedSet(ToSet(splitlines(previous, FALSE)), ToSet(splitlines(current, FALSE))))

\* ================================================================== state
VARIABLES
    mode,             \* args.mode of main: "check" or "daemon"
    store_previous,   \* config['snapshot']['store_previous']
    file,             \* the snapshot file: None when absent, else its content
    pc,               \* position of the process
    current_routes,   \* local of run_once: None or the acquired text
    previous_routes,  \* local of run_once: None or the loaded text
    result,           \* return value of the last run_once: "none", "True", "False"
    exit_code,        \* argument of sys.exit in check mode, -1 before
    log,              \* logging calls of the current cycle, in order
    steps,            \* methods run_once has called in the current cycle
    file_at_start,    \* the snapshot file when the current run_once was called
    faults,           \* failures met in the current cycle
    started,          \* number of run_once calls
    completed,        \* number of run_once calls that returned
    faulty,           \* number of returned run_once calls that met a failure
    interrupted_at,   \* pc at which KeyboardInterrupt was raised, "" before
    file_whole,       \* FALSE while the file is what an unfinished write left
    cmp_pc,           \* SpecCompare: "args", "called", "swapped"
    cmp_previous,     \* SpecCompare: argument previous
    cmp_current,      \* SpecCompare: argument current
    cmp_report,       \* SpecCompare: compare_and_log_changes(previous, current)
    cmp_swapped       \* SpecCompare: compare_and_log_changes(current, previous)

cycle_vars == << mode, store_previous, file, pc, current_routes, previous_routes,
                 result, exit_code, log, steps, file_at_start, faults, started,
                 completed, faulty, interrupted_at, file_whole >>
cmp_vars == << cmp_pc, cmp_previous, cmp_current, cmp_report, cmp_swapped >>
vars == << cycle_vars, cmp_vars >>

NoReport == [unchanged |-> FALSE, diff_output |-> << >>, added |-> {}, removed |-> {},
             log |-> << >>]

\* Positions inside a run_once call.
InCycle == {"start", "acquire", "acquired", "loaded", "stats", "save", "writing", "saved",
            "returned"}

\* ------------------------------------------------------ snapshot file I/O
\* Reading a file opened with open(path, 'r'): universal newlines turn "\r\n"
\* and a lone "\r" into "\n".
RECURSIVE ReadText(_)
ReadText(bytes) ==
    IF bytes = << >> THEN << >>
    ELSE IF bytes[1] = CR
         THEN << LF >> \o ReadText(IF Len(bytes) > 1 /\ bytes[2] = LF
                                   THEN Tail(Tail(bytes)) ELSE Tail(bytes))
         ELSE << bytes[1] >> \o ReadText(Tail(bytes))

\* What f.write(routes) leaves in the truncated file when it stops early.
Prefixes(t) == {SubSeq(t, 1, k) : k \in 0..Len(t)}

\* =================================================================== init
CycleInit ==
    /\ mode \in {"check", "daemon"}
    /\ store_previous \in BOOLEAN
    /\ file \in {None} \cup {Some(t) : t \in AcqTexts}
    /\ pc = "main"
    /\ current_routes = None
    /\ previous_routes = None
    /\ result = "none"
    /\ exit_code = -1
    /\ log = << >>
    /\ steps = << >>
    /\ file_at_start = file
    /\ faults = {}
    /\ started = 0
    /\ completed = 0
    /\ faulty = 0
    /\ interrupted_at = ""
    /\ file_whole = TRUE

CompareIdle ==
    /\ cmp_pc = "idle"
    /\ cmp_previous = << >>
    /\ cmp_current = << >>
    /\ cmp_report = NoReport
    /\ cmp_swapped = NoReport

Init == CycleInit /\ CompareIdle

\* ================================================================ actions
\* main, mode 'check': tracker.run_once() is called.
MainCheck ==
    /\ pc = "main" /\ mode = "check"
    /\ pc' = "start"
    /\ UNCHANGED << mode, store_previous, file, current_routes, previous_routes, result,
                    exit_code, log, steps, file_at_start, faults, started, completed,
                    faulty, interrupted_at, file_whole, cmp_vars >>

\* main, mode 'daemon': run_periodically logs its banner and calls run_once.
MainDaemon ==
    /\ pc = "main" /\ mode = "daemon"
    /\ pc' = "start"
    /\ UNCHANGED << mode, store_previous, file, current_routes, previous_routes, result,
                    exit_code, log, steps, file_at_start, faults, started, completed,
                    faulty, interrupted_at, file_whole, cmp_vars >>

\* run_once is entered: "Starting single route check...".
RunOnceStart ==
    /\ pc = "start"
    /\ pc' = "acquire"
    /\ log' = << Info("Starting single route check...", << >>) >>
    /\ steps' = << >>
    /\ faults' = {}
    /\ file_at_start' = file
    /\ current_routes' = None
    /\ previous_routes' = None
    /\ result' = "none"
    /\ started' = started + 1
    /\ UNCHANGED << mode, store_previous, file, exit_code, completed, faulty,
                    interrupted_at, file_whole, cmp_vars >>

\* current_routes = self.check_routes(): the text, or None on any failure of
\* the source (each failure path logs an error and returns None).
CheckRoutes ==
    /\ pc = "acquire"
    /\ \E r \in {None} \cup {Some(t) : t \in AcqTexts} :
          /\ current_routes' = r
          /\ log' = Append(log, IF r.some
                                THEN Info("Successfully retrieved routing table", << >>)
                                ELSE Info("check_routes error", << >>))
          /\ faults' = IF r.some THEN faults ELSE faults \cup {"acquire"}
    /\ steps' = Append(steps, "check_routes")
    /\ pc' = "acquired"
    /\ UNCHANGED << mode, store_previous, file, previous_routes, result, exit_code,
                    file_at_start, started, completed, faulty, interrupted_at, file_whole, cmp_vars >>

\* Mutant of AcquisitionFailed: the failed cycle goes on to persist the empty
\* result before it returns False.
AcquisitionFailedMut ==
    /\ pc = "acquired"
    /\ ~current_routes.some
    /\ log' = Append(log, Info("Failed to retrieve routing table", << >>))
    /\ file' = IF store_previous THEN Some(current_routes.text) ELSE file
    /\ result' = "False"
    /\ pc' = "returned"
    /\ completed' = completed + 1
    /\ faulty' = faulty + 1
    /\ UNCHANGED << mode, store_previous, current_routes, previous_routes, exit_code,
                    steps, file_at_start, faults, started, interrupted_at, file_whole, cmp_vars >>

\* "if current_routes is None": error report, return False.
AcquisitionFailed ==
    /\ pc = "acquired"
    /\ ~current_routes.some
    /\ log' = Append(log, Info("Failed to retrieve routing table", << >>))
    /\ result' = "False"
    /\ pc' = "returned"
    /\ completed' = completed + 1
    /\ faulty' = faulty + 1
    /\ UNCHANGED << mode, store_previous, file, current_routes, previous_routes, exit_code,
                    steps, file_at_start, faults, started, interrupted_at, file_whole, cmp_vars >>

\* Mutant of LoadPreviousSnapshot: an absent file is loaded as the empty text.
LoadPreviousSnapshotMut ==
    /\ pc = "acquired"
    /\ current_routes.some
    /\ \/ /\ ~store_previous
          /\ previous_routes' = None
          /\ UNCHANGED << log, faults >>
       \/ /\ store_previous
          /\ previous_routes' = Some(ReadText(file.text))
          /\ UNCHANGED << log, faults >>
       \/ /\ store_previous /\ file.some
          /\ previous_routes' = None
          /\ log' = Append(log, Info("Could not load previous snapshot", << >>))
          /\ faults' = faults \cup {"read"}
    /\ steps' = Append(steps, "load_previous_snapshot")
    /\ pc' = "loaded"
    /\ UNCHANGED << mode, store_previous, file, current_routes, result, exit_code,
                    file_at_start, started, completed, faulty, interrupted_at, file_whole, cmp_vars >>

\* Mutant of LoadPreviousSnapshot: a file that cannot be read is taken as an
\* empty snapshot.
LoadPreviousSnapshotMutRead ==
    /\ pc = "acquired"
    /\ current_routes.some
    /\ \/ /\ ~store_previous \/ ~file.some
          /\ previous_routes' = None
          /\ UNCHANGED << log, faults >>
       \/ /\ store_previous /\ file.some
          /\ previous_routes' = Some(ReadText(file.text))
          /\ UNCHANGED << log, faults >>
       \/ /\ store_previous /\ file.some
          /\ previous_routes' = Some(<< >>)
          /\ log' = Append(log, Info("Could not load previous snapshot", << >>))
          /\ faults' = faults \cup {"read"}
    /\ steps' = Append(steps, "load_previous_snapshot")
    /\ pc' = "loaded"
    /\ UNCHANGED << mode, store_previous, file, current_routes, result, exit_code,
                    file_at_start, started, completed, faulty, interrupted_at, file_whole, cmp_vars >>

\* previous_routes = self.load_previous_snapshot(): None when persistence is
\* off or the file is absent; the text read, or a warning and None when the
\* read raises.
LoadPreviousSnapshot ==
    /\ pc = "acquired"
    /\ current_routes.some
    /\ \/ /\ ~store_previous \/ ~file.some
          /\ previous_routes' = None
          /\ UNCHANGED << log, faults >>
       \/ /\ store_previous /\ file.some
          /\ previous_routes' = Some(ReadText(file.text))
          /\ UNCHANGED << log, faults >>
       \/ /\ store_previous /\ file.some
          /\ previous_routes' = None
          /\ log' = Append(log, Info("Could not load previous snapshot", << >>))
          /\ faults' = faults \cup {"read"}
    /\ steps' = Append(steps, "load_previous_snapshot")
    /\ pc' = "loaded"
    /\ UNCHANGED << mode, store_previous, file, current_routes, result, exit_code,
                    file_at_start, started, completed, faulty, interrupted_at, file_whole, cmp_vars >>

\* "if previous_routes is None": the first-run report with the entry count.
FirstRun ==
    /\ pc = "loaded"
    /\ ~previous_routes.some
    /\ log' = log \o << Info("No previous snapshot found - this is the first run", << >>),
                        Info("Current routing table has entries",
                             << ToString(Len(splitlines(current_routes.text, FALSE))) >>) >>
    /\ pc' = "stats"
    /\ UNCHANGED << mode, store_previous, file, current_routes, previous_routes, result,
                    exit_code, steps, file_at_start, faults, started, completed, faulty,
                    interrupted_at, file_whole, cmp_vars >>

\* "else": self.compare_and_log_changes(previous_routes, current_routes).
CompareAndLog ==
    /\ pc = "loaded"
    /\ previous_routes.some
    /\ log' = log \o compare_and_log_changes(previous_routes.text, current_routes.text).log
    /\ steps' = Append(steps, "compare_and_log_changes")
    /\ pc' = "stats"
    /\ UNCHANGED << mode, store_previous, file, current_routes, previous_routes, result,
                    exit_code, file_at_start, faults, started, completed, faulty,
                    interrupted_at, file_whole, cmp_vars >>

\* Mutant of CollectNetworkStats: after the logged error the cycle goes on
\* without the call of save_snapshot.
CollectNetworkStatsMut ==
    /\ pc = "stats"
    /\ \/ /\ UNCHANGED << log, faults >>
          /\ pc' = "save"
       \/ /\ log' = log \o << Info("Network Statistics:", << >>), Info("-", << >>),
                              Info("statistics", << >>), Info("=", << >>) >>
          /\ UNCHANGED faults
          /\ pc' = "save"
       \/ /\ log' = log \o << Info("Network Statistics:", << >>), Info("-", << >>),
                              Info("Error collecting network statistics", << >>),
                              Info("=", << >>) >>
          /\ faults' = faults \cup {"stats"}
          /\ pc' = "saved"
    /\ steps' = Append(steps, "collect_network_stats")
    /\ UNCHANGED << mode, store_previous, file, current_routes, previous_routes, result,
                    exit_code, file_at_start, started, completed, faulty, interrupted_at,
                    file_whole, cmp_vars >>

\* self.collect_network_stats(): nothing when disabled; else the statistics
\* block, or the logged error when psutil raises inside the try.
CollectNetworkStats ==
    /\ pc = "stats"
    /\ \/ UNCHANGED << log, faults >>
       \/ /\ log' = log \o << Info("Network Statistics:", << >>), Info("-", << >>),
                              Info("statistics", << >>), Info("=", << >>) >>
          /\ UNCHANGED faults
       \/ /\ log' = log \o << Info("Network Statistics:", << >>), Info("-", << >>),
                              Info("Error collecting network statistics", << >>),
                              Info("=", << >>) >>
          /\ faults' = faults \cup {"stats"}
    /\ steps' = Append(steps, "collect_network_stats")
    /\ pc' = "save"
    /\ UNCHANGED << mode, store_previous, file, current_routes, previous_routes, result,
                    exit_code, file_at_start, started, completed, faulty, interrupted_at,
                    file_whole, cmp_vars >>

\* Mutant of SaveSkip: the text is written though store_previous is off.
SaveSkipMut ==
    /\ pc = "save"
    /\ ~store_previous
    /\ steps' = Append(steps, "save_snapshot")
    /\ file' = Some(current_routes.text)
    /\ pc' = "saved"
    /\ UNCHANGED << mode, store_previous, current_routes, previous_routes, result,
                    exit_code, log, file_at_start, faults, started, completed, faulty,
                    interrupted_at, file_whole, cmp_vars >>

\* save_snapshot when store_previous is off: returns at once.
SaveSkip ==
    /\ pc = "save"
    /\ ~store_previous
    /\ steps' = Append(steps, "save_snapshot")
    /\ pc' = "saved"
    /\ UNCHANGED << mode, store_previous, file, current_routes, previous_routes, result,
                    exit_code, log, file_at_start, faults, started, completed, faulty,
                    interrupted_at, file_whole, cmp_vars >>

\* save_snapshot: os.makedirs or open(snapshot_file, 'w') raises; the warning
\* is logged and the file is as it was.
SaveOpenFail ==
    /\ pc = "save"
    /\ store_previous
    /\ steps' = Append(steps, "save_snapshot")
    /\ log' = Append(log, Info("Could not save snapshot", << >>))
    /\ faults' = faults \cup {"write"}
    /\ pc' = "saved"
    /\ UNCHANGED << mode, store_previous, file, current_routes, previous_routes, result,
                    exit_code, file_at_start, started, completed, faulty, interrupted_at,
                    file_whole, cmp_vars >>

\* save_snapshot: open(snapshot_file, 'w') creates or truncates the file.
SaveOpen ==
    /\ pc = "save"
    /\ store_previous
    /\ steps' = Append(steps, "save_snapshot")
    /\ file' = Some(<< >>)
    /\ file_whole' = FALSE
    /\ pc' = "writing"
    /\ UNCHANGED << mode, store_previous, current_routes, previous_routes, result,
                    exit_code, log, file_at_start, faults, started, completed, faulty,
                    interrupted_at, cmp_vars >>

\* Mutant of SaveWrite: the previous text is written instead of the current.
SaveWriteMut ==
    /\ pc = "writing"
    /\ file' = Some(previous_routes.text)
    /\ file_whole' = TRUE
    /\ pc' = "saved"
    /\ UNCHANGED << mode, store_previous, current_routes, previous_routes, result,
                    exit_code, log, steps, file_at_start, faults, started, completed,
                    faulty, interrupted_at, cmp_vars >>

\* save_snapshot: f.write(routes) and the close at the end of the with block.
SaveWrite ==
    /\ pc = "writing"
    /\ file' = Some(current_routes.text)
    /\ file_whole' = TRUE
    /\ pc' = "saved"
    /\ UNCHANGED << mode, store_previous, current_routes, previous_routes, result,
                    exit_code, log, steps, file_at_start, faults, started, completed,
                    faulty, interrupted_at, cmp_vars >>

\* save_snapshot: the write or the close raises; the file keeps what reached
\* it and the warning is logged.
SaveWriteFail ==
    /\ pc = "writing"
    /\ \E p \in Prefixes(current_routes.text) : file' = Some(p)
    /\ log' = Append(log, Info("Could not save snapshot", << >>))
    /\ faults' = faults \cup {"write"}
    /\ pc' = "saved"
    /\ UNCHANGED << mode, store_previous, current_routes, previous_routes, result,
                    exit_code, steps, file_at_start, started, completed, faulty,
                    interrupted_at, file_whole, cmp_vars >>

\* Mutant of RunOnceReturn: a cycle that met a read, statistics or write
\* failure returns False.
RunOnceReturnMut ==
    /\ pc = "saved"
    /\ log' = Append(log, Info("Route check completed", << >>))
    /\ result' = IF faults = {} THEN "True" ELSE "False"
    /\ pc' = "returned"
    /\ completed' = completed + 1
    /\ faulty' = IF faults # {} THEN faulty + 1 ELSE faulty
    /\ UNCHANGED << mode, store_previous, file, current_routes, previous_routes, exit_code,
                    steps, file_at_start, faults, started, interrupted_at, file_whole, cmp_vars >>

\* "Route check completed", return True.
RunOnceReturn ==
    /\ pc = "saved"
    /\ log' = Append(log, Info("Route check completed", << >>))
    /\ result' = "True"
    /\ pc' = "returned"
    /\ completed' = completed + 1
    /\ faulty' = IF faults # {} THEN faulty + 1 ELSE faulty
    /\ UNCHANGED << mode, store_previous, file, current_routes, previous_routes, exit_code,
                    steps, file_at_start, faults, started, interrupted_at, file_whole, cmp_vars >>

\* main, mode 'check': sys.exit(0 if success else 1).
Exit ==
    /\ pc = "returned" /\ mode = "check"
    /\ exit_code' = IF result = "True" THEN 0 ELSE 1
    /\ pc' = "exited"
    /\ UNCHANGED << mode, store_previous, file, current_routes, previous_routes, result,
                    log, steps, file_at_start, faults, started, completed, faulty,
                    interrupted_at, file_whole, cmp_vars >>

\* Mutant of Sleep: the loop ends when run_once returned False.
SleepMut ==
    /\ pc = "returned" /\ mode = "daemon"
    /\ pc' = IF result = "False" THEN "stopped" ELSE "sleep"
    /\ UNCHANGED << mode, store_previous, file, current_routes, previous_routes, result,
                    exit_code, log, steps, file_at_start, faults, started, completed,
                    faulty, interrupted_at, file_whole, cmp_vars >>

\* run_periodically: run_once has returned (its value is dropped) and
\* time.sleep(interval) begins.
Sleep ==
    /\ pc = "returned" /\ mode = "daemon"
    /\ pc' = "sleep"
    /\ UNCHANGED << mode, store_previous, file, current_routes, previous_routes, result,
                    exit_code, log, steps, file_at_start, faults, started, completed,
                    faulty, interrupted_at, file_whole, cmp_vars >>

\* run_periodically: the sleep ends and run_once is called again.
Wake ==
    /\ pc = "sleep"
    /\ started < MaxCycles
    /\ pc' = "start"
    /\ UNCHANGED << mode, store_previous, file, current_routes, previous_routes, result,
                    exit_code, log, steps, file_at_start, faults, started, completed,
                    faulty, interrupted_at, file_whole, cmp_vars >>

\* What an exception raised at position p leaves in the snapshot file: inside
\* the with block the file holds what had reached it when it is closed.
FileAfterRaise(p) ==
    IF p = "writing" THEN {Some(t) : t \in Prefixes(current_routes.text)} ELSE {file}

\* Mutant of KeyboardInterrupt: the interrupt is handled by the generic
\* "except Exception" branch, which reports an unexpected error.
KeyboardInterruptMut ==
    /\ mode = "daemon"
    /\ pc \in InCycle \cup {"sleep"}
    /\ file' \in FileAfterRaise(pc)
    /\ log' = Append(log, Info("Unexpected error in daemon mode", << >>))
    /\ interrupted_at' = pc
    /\ pc' = "raised"
    /\ UNCHANGED << mode, store_previous, current_routes, previous_routes, result,
                    exit_code, steps, file_at_start, faults, started, completed, faulty,
                    file_whole, cmp_vars >>

\* SIGINT in daemon mode: KeyboardInterrupt is raised where the process is, in
\* run_once or in time.sleep; no "except Exception" catches it, so it reaches
\* "except KeyboardInterrupt" of run_periodically, which logs the shutdown.
KeyboardInterrupt ==
    /\ mode = "daemon"
    /\ pc \in InCycle \cup {"sleep"}
    /\ file' \in FileAfterRaise(pc)
    /\ log' = log \o << Info("Monitoring stopped by user", << >>),
                        Info("Tracker shutdown complete", << >>) >>
    /\ interrupted_at' = pc
    /\ pc' = "stopped"
    /\ UNCHANGED << mode, store_previous, current_routes, previous_routes, result,
                    exit_code, steps, file_at_start, faults, started, completed, faulty,
                    file_whole, cmp_vars >>

\* SIGINT in check mode: main has no handler, the process ends with the
\* KeyboardInterrupt traceback.
KeyboardInterruptCheck ==
    /\ mode = "check"
    /\ pc \in InCycle
    /\ file' \in FileAfterRaise(pc)
    /\ interrupted_at' = pc
    /\ exit_code' = 130
    /\ pc' = "aborted"
    /\ UNCHANGED << mode, store_previous, current_routes, previous_routes, result, log,
                    steps, file_at_start, faults, started, completed, faulty, file_whole, cmp_vars >>

\* Positions at which run_once reads a configuration key outside any try
\* (local_config.command, snapshot.store_previous, statistics.enabled): an
\* exception there leaves run_once.
RaisesOutsideTry ==
    \/ pc = "acquire"
    \/ pc = "acquired" /\ current_routes.some
    \/ pc = "stats"

\* run_periodically: "except Exception" logs the unexpected error and re-raises.
UnexpectedError ==
    /\ mode = "daemon"
    /\ RaisesOutsideTry
    /\ log' = Append(log, Info("Unexpected error in daemon mode", << >>))
    /\ pc' = "raised"
    /\ UNCHANGED << mode, store_previous, file, current_routes, previous_routes, result,
                    exit_code, steps, file_at_start, faults, started, completed, faulty,
                    interrupted_at, file_whole, cmp_vars >>

\* main, mode 'check': an exception of run_once is not caught; the process
\* ends with the traceback and status 1.
UnexpectedErrorCheck ==
    /\ mode = "check"
    /\ RaisesOutsideTry
    /\ exit_code' = 1
    /\ pc' = "crashed"
    /\ UNCHANGED << mode, store_previous, file, current_routes, previous_routes, result,
                    log, steps, file_at_start, faults, started, completed, faulty,
                    interrupted_at, file_whole, cmp_vars >>

Next ==
    \/ MainCheck
    \/ MainDaemon
    \/ RunOnceStart
    \/ CheckRoutes
    \/ AcquisitionFailed
    \/ LoadPreviousSnapshot
    \/ FirstRun
    \/ CompareAndLog
    \/ CollectNetworkStats
    \/ SaveSkip
    \/ SaveOpenFail
    \/ SaveOpen
    \/ SaveWrite
    \/ SaveWriteFail
    \/ RunOnceReturn
    \/ Exit
    \/ Sleep
    \/ Wake
    \/ KeyboardInterrupt
    \/ KeyboardInterruptCheck
    \/ UnexpectedError
    \/ UnexpectedErrorCheck

Spec == Init /\ [][Next]_vars

\* ============================================================ SpecRestart
\* Mutant of Restart: the start of the program removes the snapshot file.
RestartMut ==
    /\ \/ pc = "exited"
       \/ pc = "stopped" /\ interrupted_at \in {"returned", "sleep"}
    /\ started < MaxCycles
    /\ mode' \in {"check", "daemon"}
    /\ pc' = "main"
    /\ current_routes' = None
    /\ previous_routes' = None
    /\ result' = "none"
    /\ exit_code' = -1
    /\ log' = << >>
    /\ steps' = << >>
    /\ faults' = {}
    /\ interrupted_at' = ""
    /\ file' = None
    /\ file_at_start' = None
    /\ UNCHANGED << store_previous, started, completed, faulty, file_whole, cmp_vars >>

\* The process has ended between two cycles (sys.exit of check mode, or the
\* daemon stopped after a returned run_once or in its sleep) and the program
\* is started again, in either mode, with the same configuration: main builds
\* a new RouteTracker, whose __init__ sets up the object from the
\* configuration alone; the snapshot file is as the ended process left it.
\* (started, completed and faulty count the cycles of all the processes.)
Restart ==
    /\ \/ pc = "exited"
       \/ pc = "stopped" /\ interrupted_at \in {"returned", "sleep"}
    /\ started < MaxCycles
    /\ mode' \in {"check", "daemon"}
    /\ pc' = "main"
    /\ current_routes' = None
    /\ previous_routes' = None
    /\ result' = "none"
    /\ exit_code' = -1
    /\ log' = << >>
    /\ steps' = << >>
    /\ faults' = {}
    /\ interrupted_at' = ""
    /\ file_at_start' = file
    /\ UNCHANGED << store_previous, file, started, completed, faulty, file_whole, cmp_vars >>

NextRestart ==
    \/ Next
    \/ Restart

SpecRestart == Init /\ [][NextRestart]_vars

\* ============================================================ SpecCompare
\* compare_and_log_changes applied to every pair of texts of Texts, then to
\* the swapped pair.
CycleIdle ==
    /\ mode = "check"
    /\ store_previous = TRUE
    /\ file = None
    /\ pc = "idle"
    /\ current_routes = None
    /\ previous_routes = None
    /\ result = "none"
    /\ exit_code = -1
    /\ log = << >>
    /\ steps = << >>
    /\ file_at_start = None
    /\ faults = {}
    /\ started = 0
    /\ completed = 0
    /\ faulty = 0
    /\ interrupted_at = ""
    /\ file_whole = TRUE

InitCompare ==
    /\ CycleIdle
    /\ cmp_pc = "args"
    /\ cmp_previous \in Texts
    /\ cmp_current \in Texts
    /\ cmp_report = NoReport
    /\ cmp_swapped = NoReport

CallCompare ==
    /\ cmp_pc = "args"
    /\ cmp_report' = compare_and_log_changes(cmp_previous, cmp_current)
    /\ cmp_pc' = "called"
    /\ UNCHANGED << cycle_vars, cmp_previous, cmp_current, cmp_swapped >>

CallSwapped ==
    /\ cmp_pc = "called"
    /\ cmp_swapped' = compare_and_log_changes(cmp_current, cmp_previous)
    /\ cmp_pc' = "swapped"
    /\ UNCHANGED << cycle_vars, cmp_previous, cmp_current, cmp_report >>

NextCompare == CallCompare \/ CallSwapped

SpecCompare == InitCompare /\ [][NextCompare]_vars

\* ================================================================= claims
\* The log has a call with message m.
Logged(l, m) == \E i \in 1..Len(l) : l[i].msg = m

\* The method name is among the calls of the current cycle.
Called(name) == \E i \in 1..Len(steps) : steps[i] = name

\* The variable parts of the calls of l that have message m, in order.
ArgsOf(l, m) ==
    LET Is(e) == e.msg = m
        sel == SelectSeq(l, Is)
    IN  [i \in 1..Len(sel) |-> sel[i].arg]

\* ----------------------------------------------------------------- C1
\* C1: in a cycle whose acquisition failed (check_routes returned None) the
\* only call run_once made is check_routes, the snapshot file is what it was
\* when run_once was called, and when run_once has returned it returned False.
C1_FailedAcquisitionLeavesStore ==
    "acquire" \in faults =>
        /\ steps = << "check_routes" >>
        /\ file = file_at_start
        /\ pc \in {"returned", "sleep", "start", "exited"} => result = "False"
        /\ result # "True"

C1_Witness ==
    /\ pc = "returned"
    /\ "acquire" \in faults
    /\ result = "False"
    /\ file_at_start.some
    /\ file_at_start.text # << >>

\* ----------------------------------------------------------------- C2
\* C2 as claimed: whenever run_once has returned True, the snapshot file holds
\* the text acquired in that cycle.
C2_Original ==
    (pc = "returned" /\ result = "True") => file = Some(current_routes.text)

\* C2 amended: whenever run_once has returned True in a cycle with persistence
\* enabled and no failure of the snapshot write, the snapshot file holds the
\* text acquired in that cycle, whether or not a change was detected.
C2_SavedWhenWriteSucceeds ==
    (pc = "returned" /\ result = "True" /\ store_previous /\ "write" \notin faults)
        => file = Some(current_routes.text)

C2_Witness ==
    /\ pc = "returned" /\ result = "True"
    /\ store_previous /\ "write" \notin faults
    /\ Called("compare_and_log_changes")
    /\ Logged(log, "Route change detected!")
    /\ file = Some(current_routes.text)
    /\ file # file_at_start

\* ----------------------------------------------------------------- C3
\* C3 as claimed: a run_once that acquired a text while no snapshot file
\* existed has, when it returns, logged the first-run report, not called
\* compare_and_log_changes, left the acquired text in the snapshot file and
\* returned True.
C3_Original ==
    (pc = "returned" /\ current_routes.some /\ ~file_at_start.some) =>
        /\ Logged(log, "No previous snapshot found - this is the first run")
        /\ ~Called("compare_and_log_changes")
        /\ file = Some(current_routes.text)
        /\ result = "True"

\* C3 amended: as claimed, except that the acquired text is in the snapshot
\* file afterwards when persistence is enabled and the snapshot write did not
\* fail; save_snapshot is called in every case.
C3_FirstRun ==
    (pc = "returned" /\ current_routes.some /\ ~file_at_start.some) =>
        /\ Logged(log, "No previous snapshot found - this is the first run")
        /\ ~Called("compare_and_log_changes")
        /\ Called("save_snapshot")
        /\ (store_previous /\ "write" \notin faults) => file = Some(current_routes.text)
        /\ result = "True"

C3_Witness ==
    /\ pc = "returned" /\ result = "True"
    /\ ~file_at_start.some
    /\ current_routes.some /\ current_routes.text # << >>
    /\ file = Some(current_routes.text)
    /\ Logged(log, "No previous snapshot found - this is the first run")

\* ----------------------------------------------------------------- C4
\* C4: in daemon mode the loop is left only by a KeyboardInterrupt or by an
\* exception that leaves run_once; a run_once that has returned, whatever
\* failures the cycle met, is followed by the sleep, and the sleep by the next
\* run_once, unless the interrupt arrives.
C4_LoopStopsOnlyOnCancelOrError ==
    [][ mode = "daemon" =>
          /\ (pc = "returned" /\ pc' # pc) =>
                (pc' = "sleep" \/ (pc' = "stopped" /\ interrupted_at' = "returned"))
          /\ (pc = "sleep" /\ pc' # pc) =>
                (pc' = "start" \/ (pc' = "stopped" /\ interrupted_at' = "sleep"))
          /\ (pc' = "stopped" /\ pc # "stopped") =>
                (interrupted_at = "" /\ interrupted_at' = pc)
          /\ (pc' = "raised" /\ pc # "raised") =>
                (pc \in {"acquire", "acquired", "stats"} /\ result = "none"
                 /\ Logged(log', "Unexpected error in daemon mode"))
          /\ (pc \in {"stopped", "raised"}) => pc' = pc
      ]_vars

C4_Witness ==
    /\ mode = "daemon"
    /\ started = 2 /\ completed = 2 /\ faulty = 2
    /\ pc = "sleep"
    /\ "write" \in faults

\* ----------------------------------------------------------------- C5
\* C5 as claimed: when the loop has stopped on a KeyboardInterrupt, every
\* run_once that was started has returned, and one that acquired a text has
\* called save_snapshot.
C5_CancelNeverPreempts ==
    pc = "stopped" =>
        /\ completed = started
        /\ (started > 0 /\ current_routes.some) => Called("save_snapshot")

\* ----------------------------------------------------------------- C6
\* C6: a KeyboardInterrupt raised in the sleep after the N-th returned
\* run_once (N >= 1) stops the loop with the shutdown notice and no error
\* report; N calls were started and N returned, nothing is acquired, and the
\* snapshot file stays as the N-th cycle left it.
C6_CancelDuringSleep ==
    [][ (pc = "sleep" /\ interrupted_at' # interrupted_at) =>
          /\ pc' = "stopped"
          /\ completed >= 1
          /\ started' = completed /\ completed' = completed
          /\ file' = file
          /\ steps' = steps /\ current_routes' = current_routes
          /\ (result = "True" /\ store_previous /\ "write" \notin faults)
                => file' = Some(current_routes.text)
          /\ Logged(log', "Monitoring stopped by user")
          /\ Logged(log', "Tracker shutdown complete")
          /\ ~Logged(log', "Unexpected error in daemon mode")
      ]_vars

C6_Witness ==
    /\ pc = "stopped"
    /\ interrupted_at = "sleep"
    /\ completed = 2 /\ started = 2
    /\ file = Some(current_routes.text)
    /\ file # file_at_start

\* ------------------------------------------------------------ C7 .. C10
\* The lines of a text, as the added/removed computation sees them.
LinesOf(t) == splitlines(t, FALSE)

\* How often line l occurs in the list lines.
Occurrences(lines, l) == Cardinality({i \in 1..Len(lines) : lines[i] = l})

\* The two texts have the same multiset of lines.
SameMultiset(s, t) ==
    \A l \in ToSet(LinesOf(s)) \cup ToSet(LinesOf(t)) :
        Occurrences(LinesOf(s), l) = Occurrences(LinesOf(t), l)

\* A line with a character that is not a space or a line break.
HasVisibleChar(l) == \E i \in 1..Len(l) : l[i] \notin {SP, LF, CR}

\* Each element of the list is smaller than the next (Python str order).
Ascending(seq) == \A i \in 1..(Len(seq) - 1) : StrLess(seq[i], seq[i+1])

\* C7: once compare_and_log_changes(previous, current) has been called, it
\* reports unchanged exactly when the texts are equal; for equal texts the
\* diff, added and removed are empty and the only logging call is the
\* no-change message; for different texts the unified diff is not empty; so
\* unchanged holds exactly when diff, added and removed are all empty.
C7_UnchangedIffEqual ==
    cmp_pc \in {"called", "swapped"} =>
        /\ cmp_report.unchanged <=> (cmp_previous = cmp_current)
        /\ (cmp_previous = cmp_current) =>
              /\ cmp_report.diff_output = << >>
              /\ cmp_report.added = {}
              /\ cmp_report.removed = {}
              /\ cmp_report.log = << Info("No routing table changes detected", << >>) >>
        /\ (cmp_previous # cmp_current) =>
              /\ cmp_report.diff_output # << >>
              /\ Logged(cmp_report.log, "Routing table diff:")
              /\ ~Logged(cmp_report.log, "No routing table changes detected")
        /\ cmp_report.unchanged <=>
              (cmp_report.diff_output = << >> /\ cmp_report.added = {}
               /\ cmp_report.removed = {})

C7_Witness ==
    /\ cmp_pc = "called"
    /\ cmp_previous # cmp_current
    /\ ~cmp_report.unchanged
    /\ cmp_report.added = {} /\ cmp_report.removed = {}
    /\ cmp_report.diff_output # << >>

\* C8: for two different texts with the same multiset of lines the call
\* reports a change with a non-empty unified diff, and the sets added and
\* removed are both empty (no "Added routes:" or "Removed routes:" is logged).
C8_ReorderOnly ==
    (cmp_pc \in {"called", "swapped"} /\ cmp_previous # cmp_current
     /\ SameMultiset(cmp_previous, cmp_current)) =>
        /\ ~cmp_report.unchanged
        /\ cmp_report.diff_output # << >>
        /\ cmp_report.added = {}
        /\ cmp_report.removed = {}
        /\ ~Logged(cmp_report.log, "Added routes:")
        /\ ~Logged(cmp_report.log, "Removed routes:")

C8_Witness ==
    /\ cmp_pc = "called"
    /\ SameMultiset(cmp_previous, cmp_current)
    /\ LinesOf(cmp_previous) # LinesOf(cmp_current)
    /\ Len(LinesOf(cmp_previous)) = 2
    /\ cmp_report.diff_output # << >>
    /\ cmp_report.added = {}

\* C9: the sets added and removed of compare(previous, current) are disjoint,
\* and added of compare(previous, current) is removed of compare(current,
\* previous), and the other way round.
C9_DisjointAndSwap ==
    /\ cmp_pc \in {"called", "swapped"} => cmp_report.added \cap cmp_report.removed = {}
    /\ cmp_pc = "swapped" =>
          /\ cmp_report.added = cmp_swapped.removed
          /\ cmp_report.removed = cmp_swapped.added
          /\ cmp_swapped.added \cap cmp_swapped.removed = {}

C9_Witness ==
    /\ cmp_pc = "swapped"
    /\ cmp_report.added # {}
    /\ cmp_report.removed # {}
    /\ cmp_report.added = cmp_swapped.removed

\* C10: for different texts the routes logged under "Added routes:" are
\* exactly the lines of current, not in previous, that are not blank, and
\* those under "Removed routes:" exactly the non-blank lines of previous not
\* in current; each list is ascending in str order, so without duplicates.
C10_AddedRemovedSorted ==
    (cmp_pc \in {"called", "swapped"} /\ cmp_previous # cmp_current) =>
        /\ ToSet(ArgsOf(cmp_report.log, "  + ")) =
              {l \in ToSet(LinesOf(cmp_current)) \ ToSet(LinesOf(cmp_previous)) :
                  HasVisibleChar(l)}
        /\ ToSet(ArgsOf(cmp_report.log, "  - ")) =
              {l \in ToSet(LinesOf(cmp_previous)) \ ToSet(LinesOf(cmp_current)) :
                  HasVisibleChar(l)}
        /\ Ascending(ArgsOf(cmp_report.log, "  + "))
        /\ Ascending(ArgsOf(cmp_report.log, "  - "))

C10_Witness ==
    /\ cmp_pc = "called"
    /\ Len(ArgsOf(cmp_report.log, "  + ")) = 2
    /\ LinesOf(cmp_current) = << << "b" >>, << "a" >> >>
    /\ ArgsOf(cmp_report.log, "  + ") = << << "a" >>, << "b" >> >>

\* ----------------------------------------------------------------- C11
\* C11: whatever the two texts, no line logged as an added route ("  + ") or
\* as a removed route ("  - ") is empty or made of whitespace only, also when
\* such a line is in one text only and so is in the added or the removed set.
C11_NoBlankRouteReported ==
    cmp_pc \in {"called", "swapped"} =>
        /\ \A i \in 1..Len(cmp_report.log) :
              cmp_report.log[i].msg \in {"  + ", "  - "} =>
                  HasVisibleChar(cmp_report.log[i].arg)
        /\ \A i \in 1..Len(cmp_swapped.log) :
              cmp_swapped.log[i].msg \in {"  + ", "  - "} =>
                  HasVisibleChar(cmp_swapped.log[i].arg)

C11_Witness ==
    /\ cmp_pc = "called"
    /\ << SP >> \in cmp_report.added
    /\ << >> \in cmp_report.removed
    /\ Logged(cmp_report.log, "  + ")
    /\ ArgsOf(cmp_report.log, "  + ") = << << "a" >> >>
    /\ ~Logged(cmp_report.log, "  - ")

\* ----------------------------------------------------------------- C12
\* C12: when run_once has returned, it returned False exactly when the
\* acquisition failed, and check mode then exits with 1, otherwise with 0; a
\* cycle that met a failure of the snapshot read, of the statistics or of the
\* snapshot write, and no failure of the acquisition, returned True.
C12_FailureIffAcquisitionFailed ==
    /\ pc \in {"returned", "sleep", "exited"} =>
          /\ result \in {"True", "False"}
          /\ result = "False" <=> "acquire" \in faults
          /\ (faults # {} /\ "acquire" \notin faults) => result = "True"
    /\ pc = "exited" =>
          /\ exit_code \in {0, 1}
          /\ exit_code # 0 <=> "acquire" \in faults

C12_Witness ==
    /\ pc = "exited"
    /\ exit_code = 0
    /\ result = "True"
    /\ faults = {"read", "stats", "write"}

\* ----------------------------------------------------------------- C13
\* C13: in a cycle that acquired a text and logged the error of the
\* statistics, no exception has left run_once, the cycle does not return
\* False, and once it has returned it has called save_snapshot and returned
\* True; the snapshot file then holds the acquired text when persistence is
\* on and the write did not fail, and is untouched when persistence is off.
C13_StatsFailureSwallowed ==
    "stats" \in faults =>
        /\ current_routes.some
        /\ pc \notin {"raised", "crashed"}
        /\ result # "False"
        /\ pc \in {"returned", "sleep", "start", "exited"} =>
              /\ result = "True"
              /\ Called("save_snapshot")
              /\ (store_previous /\ "write" \notin faults) =>
                    file = Some(current_routes.text)
              /\ ~store_previous => file = file_at_start

C13_Witness ==
    /\ pc = "returned"
    /\ faults = {"stats"}
    /\ result = "True"
    /\ store_previous
    /\ file = Some(current_routes.text)
    /\ file # file_at_start

\* ----------------------------------------------------------------- C14
\* C14: when load_previous_snapshot was called with persistence off, with no
\* snapshot file, or with a file whose read raised, it returned None: the
\* cycle does not call compare_and_log_changes, logs the first-run report,
\* and when it has returned it has called collect_network_stats and
\* save_snapshot and returned True.
C14_LoadNeverFailsHard ==
    (/\ Called("load_previous_snapshot")
     /\ ~store_previous \/ ~file_at_start.some \/ "read" \in faults) =>
        /\ ~previous_routes.some
        /\ ~Called("compare_and_log_changes")
        /\ result # "False"
        /\ pc \in {"stats", "save", "writing", "saved", "returned"} =>
              Logged(log, "No previous snapshot found - this is the first run")
        /\ pc \in {"returned", "sleep", "start", "exited"} =>
              /\ steps = << "check_routes", "load_previous_snapshot",
                            "collect_network_stats", "save_snapshot" >>
              /\ result = "True"

C14_Witness ==
    /\ pc = "returned"
    /\ store_previous
    /\ file_at_start.some
    /\ "read" \in faults
    /\ Logged(log, "Could not load previous snapshot")
    /\ Logged(log, "No previous snapshot found - this is the first run")
    /\ file = Some(current_routes.text)

\* ----------------------------------------------------------------- C15
\* In a cycle that follows, in the same process, cycles that all returned
\* True without any failure, with persistence on: the snapshot file at the
\* call of run_once is the text the cycle before acquired and saved.
AfterSuccessfulSave ==
    /\ store_previous
    /\ completed >= 1 /\ faulty = 0
    /\ started = completed + 1
    /\ file_at_start.some

\* C15 as claimed: the text load_previous_snapshot returns after a successful
\* save is the text that was saved, and a cycle that acquires the text the
\* cycle before acquired and saved reports no change.
C15_RoundTrip ==
    (/\ AfterSuccessfulSave
     /\ pc \in {"loaded", "stats", "save"}
     /\ "read" \notin faults) =>
        /\ previous_routes = file_at_start
        /\ (pc # "loaded" /\ current_routes = file_at_start) =>
              /\ Logged(log, "No routing table changes detected")
              /\ ~Logged(log, "Route change detected!")

\* ----------------------------------------------------------------- C16
\* The calls of run_once in their order, with and without the comparison.
RunOnceOrder ==
    << "check_routes", "load_previous_snapshot", "compare_and_log_changes",
       "collect_network_stats", "save_snapshot" >>
FirstRunOrder ==
    << "check_routes", "load_previous_snapshot", "collect_network_stats",
       "save_snapshot" >>

IsPrefix(s, t) == Len(s) <= Len(t) /\ s = SubSeq(t, 1, Len(s))

\* C16 as claimed: the calls of a cycle are made in the order acquire, load,
\* compare, statistics, save, and the text a cycle compares against is the
\* text the last successful save wrote, which was in the file when run_once
\* was called: never what a failed write left, never the text of this cycle.
C16_OrderAndPrevious ==
    /\ IsPrefix(steps, RunOnceOrder) \/ IsPrefix(steps, FirstRunOrder)
    /\ (Called("compare_and_log_changes") /\ pc \in {"stats", "save"}) =>
          /\ file_whole
          /\ previous_routes = file_at_start

\* ----------------------------------------------------------------- C17
\* C17 as claimed: in every state the snapshot file is what it was when
\* run_once was called (absent, or the snapshot an earlier cycle left), or it
\* holds the whole text acquired in this cycle.
C17_FileNeverPartial ==
    \/ file = file_at_start
    \/ current_routes.some /\ file = Some(current_routes.text)

\* ----------------------------------------------------------------- C19
\* C19: with store_previous false, load_previous_snapshot returns None and
\* save_snapshot writes nothing in every cycle: no cycle compares, a cycle
\* that returned True logged the first-run report, and no step creates or
\* changes the snapshot file.
C19_PersistenceOff ==
    /\ [](~store_previous =>
            /\ ~previous_routes.some
            /\ ~Called("compare_and_log_changes")
            /\ ~Logged(log, "No routing table changes detected")
            /\ ~Logged(log, "Route change detected!")
            /\ file = file_at_start
            /\ (pc \in {"returned", "sleep", "start", "exited"} /\ result = "True") =>
                  /\ steps = FirstRunOrder
                  /\ Logged(log, "No previous snapshot found - this is the first run"))
    /\ [][~store_previous => file' = file]_vars

C19_Witness ==
    /\ ~store_previous
    /\ started = 2 /\ completed = 2 /\ faulty = 0
    /\ pc = "returned" /\ result = "True"
    /\ file.some
    /\ current_routes.text # file.text
    /\ Logged(log, "No previous snapshot found - this is the first run")

\* ----------------------------------------------------------------- C20
\* C20 as claimed: in the log of compare_and_log_changes every "Added
\* routes:" header is followed at once by an added route ("  + ") and every
\* "Removed routes:" header by a removed route ("  - ").
C20_HeaderHasEntries ==
    cmp_pc \in {"called", "swapped"} =>
        \A i \in 1..Len(cmp_report.log) :
            /\ cmp_report.log[i].msg = "Added routes:" =>
                  (i < Len(cmp_report.log) /\ cmp_report.log[i+1].msg = "  + ")
            /\ cmp_report.log[i].msg = "Removed routes:" =>
                  (i < Len(cmp_report.log) /\ cmp_report.log[i+1].msg = "  - ")

\* ----------------------------------------------------------------- C18
\* The report of a cycle as a function of the snapshot file at the call of
\* run_once, of the text acquired and of the outcome of the read.
FirstRunReport(current) ==
    << Info("No previous snapshot found - this is the first run", << >>),
       Info("Current routing table has entries",
            << ToString(Len(splitlines(current, FALSE))) >>) >>

ExpectedReport(at_start, current, read_failed) ==
    IF ~store_previous \/ ~at_start.some \/ read_failed
    THEN FirstRunReport(current)
    ELSE compare_and_log_changes(ReadText(at_start.text), current).log

\* The snapshot files a cycle that returned True can leave, as a function of
\* the file at the call of run_once, of the text acquired and of the outcome
\* of the write.
ExpectedFiles(at_start, current, write_failed) ==
    IF ~store_previous THEN {at_start}
    ELSE IF write_failed THEN {at_start} \cup {Some(t) : t \in Prefixes(current)}
    ELSE {Some(current)}

EndsWith(l, tail) ==
    /\ Len(tail) <= Len(l)
    /\ SubSeq(l, Len(l) - Len(tail) + 1, Len(l)) = tail

\* C18: the snapshot file is the only state a cycle takes over from the
\* cycles before it. A restart of the program between two cycles leaves the
\* file and the configuration as they were; a run_once starts with no text
\* in memory; and in every cycle, after a restart or not, the comparison
\* report and the snapshot file left are the same functions of the file at
\* the call of run_once, the text acquired and the outcomes of read and write.
C18_FileIsOnlyCarriedState ==
    /\ [](pc = "acquire" =>
            /\ current_routes = None /\ previous_routes = None
            /\ steps = << >> /\ faults = {} /\ Len(log) = 1
            /\ file_at_start = file)
    /\ [](pc = "stats" =>
            EndsWith(log, ExpectedReport(file_at_start, current_routes.text,
                                         "read" \in faults)))
    /\ []((pc = "returned" /\ result = "True") =>
            file \in ExpectedFiles(file_at_start, current_routes.text,
                                   "write" \in faults))
    /\ [][(pc' = "main" /\ pc # "main") =>
             (file' = file /\ store_previous' = store_previous)]_vars

C18_Witness ==
    /\ mode = "check"
    /\ started = 2 /\ completed = 1 /\ faulty = 0
    /\ store_previous
    /\ pc = "stats"
    /\ current_routes.text # << >>
    /\ previous_routes = Some(current_routes.text)
    /\ Logged(log, "No routing table changes detected")

====
